---------------------------- MODULE Spec2Model ----------------------------
(***************************************************************************)
(* sg_inspector: OpenStackSecurityGroupChecker (src/openstack.go).         *)
(*                                                                         *)
(* The checker reads a temporary allow list from redis, fetches projects,  *)
(* ports, floating IPs and security groups from OpenStack, reports the     *)
(* security groups that are open to 0.0.0.0/0 (isFullOpen) and the ones    *)
(* that match a rego policy (matchPolicy), and posts the findings to       *)
(* Slack (postWarning).                                                    *)
(*                                                                         *)
(* Strings that the code only compares are TLA+ strings.  Strings that the *)
(* code formats or parses (port numbers, port ranges) are sequences of     *)
(* one-character strings, so that strconv.Itoa, fmt.Sprintf and the       *)
(* regular expression of matchAllowdRule are computed, not assumed.       *)
(***************************************************************************)
EXTENDS Integers, Sequences, FiniteSets, TLC

VARIABLES
    \* the collaborators' side: what OpenStack and redis hold, and which call fails
    osProjects, osPorts, osFips, osGroups, redisList, fault,
    \* OpenStackSecurityGroupChecker fields
    Cfg, Attachments, Projects,
    \* the frame of Run
    pc, allowed_sg, ports, fips, securityGroups,
    existNoguardSG, existsSGMatchedPolicy, gi, pi, err,
    \* observation of the current run
    posts, warnings, evals, fetchFailed, lastOpen, openStart, matchRet,
    \* observation across runs
    runs, prevOpen

vars == << osProjects, osPorts, osFips, osGroups, redisList, fault,
           Cfg, Attachments, Projects,
           pc, allowed_sg, ports, fips, securityGroups,
           existNoguardSG, existsSGMatchedPolicy, gi, pi, err,
           posts, warnings, evals, fetchFailed, lastOpen, openStart, matchRet,
           runs, prevOpen >>

----------------------------------------------------------------------------
(* Bounds of the model *)

MaxGroups == 2      \* security groups OpenStack holds
MaxPolicies == 2    \* configured policies
MaxRuns == 2        \* calls of Run on one checker
MaxRules == 2       \* rules of the security group handed to isFullOpen
MaxPorts == 2       \* ports handed to isFullOpen
MaxFips == 1        \* floating IPs handed to isFullOpen
MaxAllow == 2       \* allow rules handed to matchAllowdRule
PageSize == 1       \* items OpenStack returns per page of a listing

----------------------------------------------------------------------------
(* Generic helpers *)

Nil == "nil"

Range(s) == { s[i] : i \in 1..Len(s) }

\* the sequences over S of length at most n without a repeated element
InjSeqs(S, n) ==
    { s \in UNION { [1..k -> S] : k \in 0..n } :
        \A i, j \in 1..Len(s) : i # j => s[i] # s[j] }

Min(a, b) == IF a < b THEN a ELSE b

----------------------------------------------------------------------------
\* strconv.Itoa, fmt.Sprintf("%d-%d"), and the regexp: digits, "-", digits

DigitChars == << "0", "1", "2", "3", "4", "5", "6", "7", "8", "9" >>

IsDigit(c) == c \in Range(DigitChars)

RECURSIVE Itoa(_)
Itoa(n) ==
    IF n < 0 THEN << "-" >> \o Itoa(0 - n)
    ELSE IF n < 10 THEN << DigitChars[n + 1] >>
    ELSE Itoa(n \div 10) \o << DigitChars[(n % 10) + 1] >>

\* fmt.Sprintf("%d-%d", min, max)
SprintfRange(min, max) == Itoa(min) \o << "-" >> \o Itoa(max)

\* r.MatchString(port): a digit run may be empty, so any text holding a "-" matches
MatchString(port) == \E i \in 1..Len(port) : port[i] = "-"

\* the leftmost match starts at the digit run that ends at the first "-"
FirstDash(port) ==
    CHOOSE i \in 1..Len(port) :
        port[i] = "-" /\ \A j \in 1..(i - 1) : port[j] # "-"

RECURSIVE DigitsBefore(_, _)
DigitsBefore(s, k) ==
    IF k >= 1 /\ IsDigit(s[k]) THEN DigitsBefore(s, k - 1) \o << s[k] >>
    ELSE << >>

RECURSIVE DigitsAfter(_, _)
DigitsAfter(s, k) ==
    IF k <= Len(s) /\ IsDigit(s[k]) THEN << s[k] >> \o DigitsAfter(s, k + 1)
    ELSE << >>

\* r.FindAllStringSubmatch(port, -1)[0]: << whole, group 1, group 2 >>
FindSubmatch(port) ==
    LET d == FirstDash(port)
        g1 == DigitsBefore(port, d - 1)
        g2 == DigitsAfter(port, d + 1)
    IN  << g1 \o << "-" >> \o g2, g1, g2 >>

----------------------------------------------------------------------------
(* contain, contains, getProjectNameFromID, matchAllowdRule *)

contain(s, e) == \E i \in 1..Len(s) : s[i] = e

contains(slice, item) == \E i \in 1..Len(slice) : slice[i] = item

\* returns (name, error); the first project with that ID wins
getProjectNameFromID(id, ps) ==
    IF \E i \in 1..Len(ps) : ps[i].ID = id
    THEN LET i == CHOOSE i \in 1..Len(ps) :
                     ps[i].ID = id /\ \A j \in 1..(i - 1) : ps[j].ID # id
         IN  [name |-> ps[i].Name, err |-> Nil]
    ELSE [name |-> "", err |-> "Not found project"]

\* a range entry compared on its lower end only
MutRangeEntryMatches(port, rule) ==
    /\ MatchString(port)
    /\ FindSubmatch(port)[2] = Itoa(rule.PortRangeMin)

\* the body of the loop over allowdRule.Port, lines 239-246
RangeEntryMatches(port, rule) ==
    /\ MatchString(port)
    /\ LET result == FindSubmatch(port)
       IN  /\ result[2] = Itoa(rule.PortRangeMin)
           /\ result[3] = Itoa(rule.PortRangeMax)

AllowdRuleMatches(allowdRule, sg, rule) ==
    /\ allowdRule.TenantID = sg.TenantID
    /\ allowdRule.SG = sg.Name
    /\ \/ \E k \in 1..Len(allowdRule.Port) :
              RangeEntryMatches(allowdRule.Port[k], rule)
       \/ /\ contains(allowdRule.Port, Itoa(rule.PortRangeMin))
          /\ contains(allowdRule.Port, Itoa(rule.PortRangeMax))

matchAllowdRule(allowdRules, sg, rule) ==
    \E i \in 1..Len(allowdRules) : AllowdRuleMatches(allowdRules[i], sg, rule)

----------------------------------------------------------------------------
(* net.ParseIP, net.ParseCIDR, isPrivateIP *)

NilIP == << >>

\* net.ParseIP on the addresses of the model: the four bytes, or nil
ParseIP(s) ==
    CASE s = "10.0.0.5"    -> << 10, 0, 0, 5 >>
      [] s = "172.16.0.9"  -> << 172, 16, 0, 9 >>
      [] s = "172.32.0.1"  -> << 172, 32, 0, 1 >>
      [] s = "192.168.1.1" -> << 192, 168, 1, 1 >>
      [] s = "127.0.0.1"   -> << 127, 0, 0, 1 >>
      [] s = "169.254.0.1" -> << 169, 254, 0, 1 >>
      [] s = "224.0.0.1"   -> << 224, 0, 0, 1 >>
      [] s = "203.0.113.5" -> << 203, 0, 113, 5 >>
      [] s = "8.8.8.8"     -> << 8, 8, 8, 8 >>
      [] OTHER             -> NilIP

\* net.ParseCIDR on the three literals of isPrivateIP
ParseCIDR(cidr) ==
    CASE cidr = "10.0.0.0/8"     -> [err |-> Nil, ip |-> << 10, 0, 0, 0 >>, ones |-> 8]
      [] cidr = "172.16.0.0/12"  -> [err |-> Nil, ip |-> << 172, 16, 0, 0 >>, ones |-> 12]
      [] cidr = "192.168.0.0/16" -> [err |-> Nil, ip |-> << 192, 168, 0, 0 >>, ones |-> 16]
      [] OTHER -> [err |-> "invalid CIDR address", ip |-> NilIP, ones |-> 0]

Pow2(n) == IF n = 0 THEN 1 ELSE IF n = 1 THEN 2 ELSE IF n = 2 THEN 4
           ELSE IF n = 3 THEN 8 ELSE IF n = 4 THEN 16 ELSE IF n = 5 THEN 32
           ELSE IF n = 6 THEN 64 ELSE IF n = 7 THEN 128 ELSE 256

\* the number of mask bits that fall into byte i of a /ones mask
MaskBits(ones, i) ==
    LET left == ones - 8 * (i - 1)
    IN  IF left < 0 THEN 0 ELSE Min(left, 8)

\* (*IPNet).Contains: false when the lengths differ, as for a nil IP
Contains(block, ip) ==
    /\ Len(ip) = Len(block.ip)
    /\ \A i \in 1..Len(ip) :
          LET keep == Pow2(8 - MaskBits(block.ones, i))
          IN  ip[i] \div keep = block.ip[i] \div keep

IsLoopback(ip) == Len(ip) = 4 /\ ip[1] = 127

IsLinkLocalUnicast(ip) == Len(ip) = 4 /\ ip[1] = 169 /\ ip[2] = 254

IsLinkLocalMulticast(ip) == Len(ip) = 4 /\ ip[1] = 224 /\ ip[2] = 0 /\ ip[3] = 0

PrivateCIDRs == << "10.0.0.0/8", "172.16.0.0/12", "192.168.0.0/16" >>

\* returns (isPrivate, error)
isPrivateIP(ip) ==
    IF IsLoopback(ip) \/ IsLinkLocalUnicast(ip) \/ IsLinkLocalMulticast(ip)
    THEN [isPrivate |-> TRUE, err |-> Nil]
    ELSE IF \E k \in 1..Len(PrivateCIDRs) : ParseCIDR(PrivateCIDRs[k]).err # Nil
    THEN [isPrivate |-> TRUE,
          err |-> ParseCIDR(PrivateCIDRs[
                     CHOOSE k \in 1..Len(PrivateCIDRs) :
                         ParseCIDR(PrivateCIDRs[k]).err # Nil]).err]
    ELSE IF \E k \in 1..Len(PrivateCIDRs) : Contains(ParseCIDR(PrivateCIDRs[k]), ip)
    THEN [isPrivate |-> TRUE, err |-> Nil]
    ELSE [isPrivate |-> FALSE, err |-> Nil]

----------------------------------------------------------------------------
(* isFullOpen *)

Field(title, value) == [Title |-> title, Value |-> value]

AttachmentColor == "#ff6347"

\* the loop over port.FixedIPs, lines 402-412
RECURSIVE ScanFixedIPs(_, _)
ScanFixedIPs(ips, i) ==
    IF i > Len(ips) THEN [public |-> FALSE, err |-> Nil]
    ELSE LET r == isPrivateIP(ParseIP(ips[i].IPAddress))
         IN  IF r.err # Nil THEN [public |-> FALSE, err |-> r.err]
             ELSE IF ~r.isPrivate THEN [public |-> TRUE, err |-> Nil]
             ELSE ScanFixedIPs(ips, i + 1)

\* the loop over port.SecurityGroups, lines 391-414
RECURSIVE ScanSecurityGroups(_, _, _, _)
ScanSecurityGroups(port, j, sg, fs) ==
    IF j > Len(port.SecurityGroups) THEN [open |-> FALSE, err |-> Nil]
    ELSE IF port.SecurityGroups[j] # sg.ID
    THEN ScanSecurityGroups(port, j + 1, sg, fs)
    ELSE IF \E k \in 1..Len(fs) : fs[k].PortID = port.ID
    THEN [open |-> TRUE, err |-> Nil]
    ELSE LET r == ScanFixedIPs(port.FixedIPs, 1)
         IN  IF r.err # Nil THEN [open |-> FALSE, err |-> r.err]
             ELSE IF r.public THEN [open |-> TRUE, err |-> Nil]
             ELSE ScanSecurityGroups(port, j + 1, sg, fs)

\* the loop labelled IGNOREPORT, lines 388-415
RECURSIVE ScanPorts(_, _, _, _)
ScanPorts(ps, i, sg, fs) ==
    IF i > Len(ps) THEN [ignorePort |-> TRUE, err |-> Nil]
    ELSE LET r == ScanSecurityGroups(ps[i], 1, sg, fs)
         IN  IF r.err # Nil THEN [ignorePort |-> TRUE, err |-> r.err]
             ELSE IF r.open THEN [ignorePort |-> FALSE, err |-> Nil]
             ELSE ScanPorts(ps, i + 1, sg, fs)

IsOpenRule(rule) ==
    /\ rule.RemoteIPPrefix = "0.0.0.0/0"
    /\ rule.Protocol = "tcp"
    /\ rule.Direction = "ingress"

\* lines 430-448: the attachment of one rule
OpenAttachment(sg, rule, projects) ==
    LET r == getProjectNameFromID(sg.TenantID, projects)
        projectName == IF r.err # Nil THEN sg.TenantID ELSE r.name
    IN  [Color |-> AttachmentColor,
         Fields |-> << Field("Tenant", << projectName >>),
                       Field("ID", << sg.ID >>),
                       Field("Name", << sg.Name >>),
                       Field("PortRange",
                             SprintfRange(rule.PortRangeMin, rule.PortRangeMax)) >>]

\* the temporary allow list is not consulted
MutRuleIsReported(sg, rule, allowed) ==
    /\ IsOpenRule(rule)
    /\ ~matchAllowdRule(Cfg.Rules, sg, rule)

\* whether the rule at lines 422-427 adds an attachment
RuleIsReported(sg, rule, allowed) ==
    /\ IsOpenRule(rule)
    /\ ~matchAllowdRule(Cfg.Rules, sg, rule)
    /\ ~contain(allowed, sg.ID)

\* the loop over sg.Rules, lines 421-452
RECURSIVE ScanRules(_, _, _, _)
ScanRules(sg, i, allowed, acc) ==
    IF i > Len(sg.Rules) THEN acc
    ELSE IF RuleIsReported(sg, sg.Rules[i], allowed)
    THEN ScanRules(sg, i + 1, allowed,
                   [isFullOpen |-> TRUE,
                    Attachments |-> Append(acc.Attachments,
                                           OpenAttachment(sg, sg.Rules[i], Projects))])
    ELSE ScanRules(sg, i + 1, allowed, acc)

\* returns (isFullOpen, error) and the new checker.Attachments
isFullOpen(sg, ps, fs, allowed) ==
    LET scan == ScanPorts(ps, 1, sg, fs)
    IN  IF scan.err # Nil
        THEN [ret |-> FALSE, err |-> scan.err, ignorePort |-> scan.ignorePort,
              Attachments |-> Attachments]
        ELSE IF scan.ignorePort
        THEN [ret |-> FALSE, err |-> Nil, ignorePort |-> TRUE,
              Attachments |-> Attachments]
        ELSE LET acc == ScanRules(sg, 1, allowed,
                                  [isFullOpen |-> FALSE, Attachments |-> Attachments])
             IN  [ret |-> acc.isFullOpen, err |-> Nil, ignorePort |-> FALSE,
                  Attachments |-> acc.Attachments]

----------------------------------------------------------------------------
(* rego and matchPolicy *)

\* lines 132-138
PolicyPaths(policy) ==
    (IF policy.Policy # "" THEN << policy.Policy >> ELSE << >>)
        \o (IF policy.Data # "" THEN << policy.Data >> ELSE << >>)

\* r.PrepareForEval
PrepareForEval(paths) ==
    IF fault.at = "prepare"
    THEN [err |-> "rego: prepare failed", query |-> paths]
    ELSE [err |-> Nil, query |-> paths]

\* lines 461-475: the group as JSON, created_at as UnixNano
Facts(sg) ==
    [id |-> sg.ID, name |-> sg.Name, tenant_id |-> sg.TenantID,
     security_group_rules |->
        [k \in 1..Len(sg.Rules) |->
            [direction |-> sg.Rules[k].Direction,
             protocol |-> sg.Rules[k].Protocol,
             remote_ip_prefix |-> sg.Rules[k].RemoteIPPrefix,
             port_range_min |-> sg.Rules[k].PortRangeMin,
             port_range_max |-> sg.Rules[k].PortRangeMax]],
     created_at |-> sg.CreatedAt]

\* query.Eval of "x = data.example.allow" on the policy files of the model;
\* with no policy file data.example.allow is undefined and the result set is empty
Eval(query, input) ==
    IF fault.at = "eval" THEN [err |-> "rego: eval failed", rs |-> << >>]
    ELSE IF contains(query, "any_open.rego")
    THEN [err |-> Nil,
          rs |-> << [x |-> \E k \in 1..Len(input.security_group_rules) :
                        input.security_group_rules[k].remote_ip_prefix = "0.0.0.0/0"] >>]
    ELSE IF contains(query, "named_web.rego")
    THEN [err |-> Nil, rs |-> << [x |-> input.name = "web"] >>]
    ELSE [err |-> Nil, rs |-> << >>]

\* sg.CreatedAt.Local().String()
LocalString(t) == << "created@" >> \o Itoa(t)

\* lines 497-500
RECURSIVE RulesDump(_, _)
RulesDump(rules, i) ==
    IF i > Len(rules) THEN << >>
    ELSE << rules[i].Direction, ", IP Range: ", rules[i].RemoteIPPrefix,
            ", Port Range: " >>
         \o SprintfRange(rules[i].PortRangeMin, rules[i].PortRangeMax)
         \o << "\n" >>
         \o RulesDump(rules, i + 1)

\* lines 483-508: on a miss projectName stays "" and the error is dropped
PolicyAttachment(sg, projects) ==
    LET projectName == getProjectNameFromID(sg.TenantID, projects).name
    IN  [Color |-> AttachmentColor,
         Fields |-> << Field("Name", << sg.Name >>),
                       Field("Tenant", << projectName >>),
                       Field("ID", << sg.ID >>),
                       Field("Created", LocalString(sg.CreatedAt)),
                       Field("Rules", RulesDump(sg.Rules, 1)) >>]

\* the binding x of the first result is not looked at
MutMatchPolicy(query, sg) ==
    LET r == Eval(query, Facts(sg))
    IN  IF r.err # Nil
        THEN [match |-> FALSE, err |-> r.err, Attachments |-> Attachments]
        ELSE IF Len(r.rs) > 0
        THEN [match |-> TRUE, err |-> Nil,
              Attachments |-> Append(Attachments, PolicyAttachment(sg, Projects))]
        ELSE [match |-> FALSE, err |-> Nil, Attachments |-> Attachments]

\* returns (match, error) and the new checker.Attachments
matchPolicy(query, sg) ==
    LET r == Eval(query, Facts(sg))
    IN  IF r.err # Nil
        THEN [match |-> FALSE, err |-> r.err, Attachments |-> Attachments]
        ELSE IF Len(r.rs) > 0 /\ r.rs[1].x
        THEN [match |-> TRUE, err |-> Nil,
              Attachments |-> Append(Attachments, PolicyAttachment(sg, Projects))]
        ELSE [match |-> FALSE, err |-> Nil, Attachments |-> Attachments]

----------------------------------------------------------------------------
(* postWarning *)

Message(text, attachments) == [text |-> text, attachments |-> attachments]

\* the loop over attachments, lines 197-209
ItemMessages(attachments) ==
    [k \in 1..Len(attachments) |-> Message("", << attachments[k] >>)]

\* returns the error and the messages that reached Slack
postWarning(attachments, prefix, suffix) ==
    IF fault.at = "post_prefix"
    THEN [err |-> "Failed to post prefix message", sent |-> << >>]
    ELSE IF fault.at = "post_item" /\ Len(attachments) > 0
    THEN [err |-> "Failed to post attachments",
          sent |-> << Message(prefix, << >>) >>]
    ELSE IF fault.at = "post_suffix"
    THEN [err |-> "Failed to post suffix message",
          sent |-> << Message(prefix, << >>) >> \o ItemMessages(attachments)]
    ELSE [err |-> Nil,
          sent |-> << Message(prefix, << >>) >> \o ItemMessages(attachments)
                      \o << Message(suffix, << >>) >>]

----------------------------------------------------------------------------
(* fetchProjects, fetchPorts, fetchFloatingIPS, fetchSecurityGroups *)

\* the requests a listing takes: one per page, and one for an empty listing
NumPages(list) ==
    IF Len(list) = 0 THEN 1 ELSE (Len(list) + PageSize - 1) \div PageSize

\* EachPage: the handler appends page after page; a failing page ends the
\* walk with an error
EachPage(list, point) ==
    IF fault.at = point /\ fault.page <= NumPages(list)
    THEN [results |-> SubSeq(list, 1, (fault.page - 1) * PageSize),
          err |-> "page failed"]
    ELSE [results |-> list, err |-> Nil]

\* lines 309-383, the same shape four times: the error of the client
\* constructor is returned, the error of EachPage is not assigned
Fetch(list, clientPoint, pagePoint) ==
    IF fault.at = clientPoint
    THEN [results |-> << >>, err |-> "no endpoint", pageErr |-> Nil]
    ELSE [results |-> EachPage(list, pagePoint).results, err |-> Nil,
          pageErr |-> EachPage(list, pagePoint).err]

fetchProjects == Fetch(osProjects, "projects_client", "projects_page")

fetchPorts == Fetch(osPorts, "ports_client", "ports_page")

fetchFloatingIPS == Fetch(osFips, "fips_client", "fips_page")

fetchSecurityGroups == Fetch(osGroups, "groups_client", "groups_page")

\* lines 79-85: the last project of that name wins
RECURSIVE ResolveTenantID(_, _, _)
ResolveTenantID(rule, projects, k) ==
    IF k > Len(projects) THEN rule
    ELSE ResolveTenantID(
             IF rule.Tenant = projects[k].Name
             THEN [rule EXCEPT !.TenantID = projects[k].ID] ELSE rule,
             projects, k + 1)

----------------------------------------------------------------------------
(* The data the model runs on *)

Project1 == [ID |-> "t1", Name |-> "Alpha"]

SecGroupRule(direction, protocol, prefix, min, max) ==
    [Direction |-> direction, Protocol |-> protocol, RemoteIPPrefix |-> prefix,
     PortRangeMin |-> min, PortRangeMax |-> max]

RuleOpen22 == SecGroupRule("ingress", "tcp", "0.0.0.0/0", 22, 22)

RuleOpen80to443 == SecGroupRule("ingress", "tcp", "0.0.0.0/0", 80, 443)

RuleUdp == SecGroupRule("ingress", "udp", "0.0.0.0/0", 53, 53)

RuleEgress == SecGroupRule("egress", "tcp", "0.0.0.0/0", 80, 80)

RuleNarrow == SecGroupRule("ingress", "tcp", "10.0.0.0/8", 22, 22)

RuleCatalog == { RuleOpen22, RuleOpen80to443, RuleUdp, RuleEgress, RuleNarrow }

SecGroup(id, name, tenant, created, rules) ==
    [ID |-> id, Name |-> name, TenantID |-> tenant, CreatedAt |-> created,
     Rules |-> rules]

\* tenant t1 is project Alpha; tenant t2 is no project OpenStack lists
SgWeb == SecGroup("sg-1", "web", "t1", 1, << RuleOpen22, RuleOpen80to443 >>)

SgDb == SecGroup("sg-2", "db", "t2", 2, << RuleOpen22 >>)

SgInt == SecGroup("sg-3", "int", "t1", 3, << RuleNarrow >>)

GroupCatalog == { SgWeb, SgDb, SgInt }

FixedIP(a) == [IPAddress |-> a]

PortPrivate ==
    [ID |-> "port-1", SecurityGroups |-> << "sg-1" >>,
     FixedIPs |-> << FixedIP("10.0.0.5"), FixedIP("172.16.0.9"),
                     FixedIP("127.0.0.1"), FixedIP("169.254.0.1"),
                     FixedIP("224.0.0.1") >>]

PortPublic ==
    [ID |-> "port-2", SecurityGroups |-> << "sg-2", "sg-1" >>,
     FixedIPs |-> << FixedIP("192.168.1.1"), FixedIP("172.32.0.1") >>]

PortOther ==
    [ID |-> "port-3", SecurityGroups |-> << "sg-2" >>,
     FixedIPs |-> << FixedIP("8.8.8.8") >>]

PortBadIP ==
    [ID |-> "port-4", SecurityGroups |-> << "sg-1" >>,
     FixedIPs |-> << FixedIP("not-an-ip") >>]

PortCatalog == { PortPrivate, PortPublic, PortOther, PortBadIP }

Fip1 == [ID |-> "fip-1", PortID |-> "port-1"]

Fip3 == [ID |-> "fip-3", PortID |-> "port-3"]

FipCatalog == { Fip1, Fip3 }

AllowRule(tenant, tenantID, sg, port) ==
    [Tenant |-> tenant, TenantID |-> tenantID, SG |-> sg, Port |-> port]

\* the port lists of the allow rules, as the configuration file spells them
PortLists ==
    { << >>,
      << << "8", "0" >> >>,
      << << "8", "0" >>, << "4", "4", "3" >> >>,
      << << "8", "0", "-", "8", "0" >> >>,
      << << "8", "0", "-", "4", "4", "3" >>, << "2", "2" >> >>,
      << << "4", "4", "3" >>, << "8", "1", "-", "8", "1" >> >> }

AllowRuleCatalog ==
    { AllowRule(t[1], t[2], t[3], p) :
        t \in { << "Alpha", "t1", "web" >>, << "Beta", "t2", "web" >>,
                << "Alpha", "t1", "db" >> },
        p \in PortLists }

\* the (PortRangeMin, PortRangeMax) of the rule handed to matchAllowdRule
PortPairs ==
    { << 22, 22 >>, << 80, 80 >>, << 80, 81 >>, << 80, 443 >>, << 81, 81 >>,
      << 443, 443 >> }

PolAnyOpen ==
    [Policy |-> "any_open.rego", Data |-> "",
     PrefixMessage |-> "any-open:", SuffixMessage |-> "any-open."]

PolWeb ==
    [Policy |-> "named_web.rego", Data |-> "names.json",
     PrefixMessage |-> "named-web:", SuffixMessage |-> "named-web."]

PolNoRule ==
    [Policy |-> "", Data |-> "names.json",
     PrefixMessage |-> "no-rule:", SuffixMessage |-> "no-rule."]

AllPolicies == << PolAnyOpen, PolWeb, PolNoRule >>

Config(rules, dryRun, policies) ==
    [Rules |-> rules, DryRun |-> dryRun, Policies |-> policies,
     PrefixMessage |-> "open:", SuffixMessage |-> "open."]

NoFault == [at |-> "none", page |-> 0]

CallFaults ==
    { "llen", "lrange", "auth", "projects_client", "ports_client", "fips_client",
      "groups_client", "prepare", "eval", "post_prefix", "post_item",
      "post_suffix" }

\* one collaborator call, or one page of one listing, fails in every run
Faults(projects, ps, fs, groups) ==
    { NoFault }
        \cup { [at |-> a, page |-> 0] : a \in CallFaults }
        \cup { [at |-> "projects_page", page |-> k] : k \in 1..NumPages(projects) }
        \cup { [at |-> "ports_page", page |-> k] : k \in 1..NumPages(ps) }
        \cup { [at |-> "fips_page", page |-> k] : k \in 1..NumPages(fs) }
        \cup { [at |-> "groups_page", page |-> k] : k \in 1..NumPages(groups) }

NoOpen ==
    [gi |-> 0, ret |-> FALSE, err |-> Nil, ignorePort |-> TRUE, before |-> << >>]

NoPrev == [set |-> FALSE, attachments |-> << >>]

NoMatch == [set |-> FALSE, value |-> FALSE]

----------------------------------------------------------------------------
(* Run *)

world == << osProjects, osPorts, osFips, osGroups, redisList, fault >>

\* the frame of Run and the observations, before the first statement
FrameInitRest ==
    /\ allowed_sg = << >>
    /\ ports = << >>
    /\ fips = << >>
    /\ existNoguardSG = FALSE
    /\ existsSGMatchedPolicy = FALSE
    /\ gi = 1
    /\ pi = 1
    /\ err = Nil
    /\ posts = << >>
    /\ warnings = << >>
    /\ evals = << >>
    /\ fetchFailed = FALSE
    /\ lastOpen = NoOpen
    /\ openStart = << >>
    /\ matchRet = NoMatch

Init ==
    /\ osProjects = << Project1 >>
    /\ osPorts = << PortPrivate, PortPublic >>
    /\ osFips = << Fip1 >>
    /\ osGroups \in InjSeqs(GroupCatalog, MaxGroups)
    /\ redisList \in { << >>, << "sg-2" >> }
    /\ fault \in Faults(osProjects, osPorts, osFips, osGroups)
    /\ Cfg \in { Config(<< AllowRule("Alpha", "", "web", << << "2", "2" >> >>) >>,
                        d, SubSeq(AllPolicies, 1, n)) :
                   d \in BOOLEAN, n \in 0..Min(MaxPolicies, Len(AllPolicies)) }
    /\ Attachments = << >>
    /\ Projects = << >>
    /\ pc = "start"
    /\ securityGroups = << >>
    /\ FrameInitRest
    /\ runs = 1
    /\ prevOpen = NoPrev

\* lines 46-65
ReadAllowList ==
    /\ pc = "start"
    /\ IF fault.at \in { "llen", "lrange" }
       THEN pc' = "returned" /\ err' = "redis: connection refused"
            /\ allowed_sg' = allowed_sg
       ELSE pc' = "auth" /\ err' = err /\ allowed_sg' = redisList
    /\ UNCHANGED << world, Cfg, Attachments, Projects, ports, fips, securityGroups,
                    existNoguardSG, existsSGMatchedPolicy, gi, pi,
                    posts, warnings, evals, fetchFailed, lastOpen, openStart,
                    matchRet, runs, prevOpen >>

\* lines 67-72
Authenticate ==
    /\ pc = "auth"
    /\ IF fault.at = "auth"
       THEN pc' = "returned" /\ err' = "Failed to authenticate OpenStack API"
       ELSE pc' = "projects" /\ err' = err
    /\ UNCHANGED << world, Cfg, Attachments, Projects, allowed_sg, ports, fips,
                    securityGroups, existNoguardSG, existsSGMatchedPolicy, gi, pi,
                    posts, warnings, evals, fetchFailed, lastOpen, openStart,
                    matchRet, runs, prevOpen >>

\* lines 74-77
FetchProjects ==
    /\ pc = "projects"
    /\ LET r == fetchProjects
       IN  /\ Projects' = r.results
           /\ fetchFailed' = (fetchFailed \/ r.err # Nil \/ r.pageErr # Nil)
           /\ IF r.err # Nil
              THEN pc' = "returned" /\ err' = "Failed to fetch projects"
              ELSE pc' = "resolve" /\ err' = err
    /\ UNCHANGED << world, Cfg, Attachments, allowed_sg, ports, fips,
                    securityGroups, existNoguardSG, existsSGMatchedPolicy, gi, pi,
                    posts, warnings, evals, lastOpen, openStart,
                    matchRet, runs, prevOpen >>

\* lines 79-85
ResolveTenants ==
    /\ pc = "resolve"
    /\ Cfg' = [Cfg EXCEPT !.Rules =
                  [i \in 1..Len(Cfg.Rules) |->
                      ResolveTenantID(Cfg.Rules[i], Projects, 1)]]
    /\ pc' = "ports"
    /\ UNCHANGED << world, Attachments, Projects, allowed_sg, ports, fips,
                    securityGroups, existNoguardSG, existsSGMatchedPolicy, gi, pi,
                    err, posts, warnings, evals, fetchFailed, lastOpen, openStart,
                    matchRet, runs, prevOpen >>

\* lines 86-89
FetchPorts ==
    /\ pc = "ports"
    /\ LET r == fetchPorts
       IN  /\ ports' = r.results
           /\ fetchFailed' = (fetchFailed \/ r.err # Nil \/ r.pageErr # Nil)
           /\ IF r.err # Nil
              THEN pc' = "returned" /\ err' = "Failed to fetch ports"
              ELSE pc' = "fips" /\ err' = err
    /\ UNCHANGED << world, Cfg, Attachments, Projects, allowed_sg, fips,
                    securityGroups, existNoguardSG, existsSGMatchedPolicy, gi, pi,
                    posts, warnings, evals, lastOpen, openStart,
                    matchRet, runs, prevOpen >>

\* lines 91-94
FetchFloatingIPs ==
    /\ pc = "fips"
    /\ LET r == fetchFloatingIPS
       IN  /\ fips' = r.results
           /\ fetchFailed' = (fetchFailed \/ r.err # Nil \/ r.pageErr # Nil)
           /\ IF r.err # Nil
              THEN pc' = "returned" /\ err' = "Failed to fetch fips"
              ELSE pc' = "groups" /\ err' = err
    /\ UNCHANGED << world, Cfg, Attachments, Projects, allowed_sg, ports,
                    securityGroups, existNoguardSG, existsSGMatchedPolicy, gi, pi,
                    posts, warnings, evals, lastOpen, openStart,
                    matchRet, runs, prevOpen >>

\* lines 96-101
FetchSecurityGroups ==
    /\ pc = "groups"
    /\ LET r == fetchSecurityGroups
       IN  /\ securityGroups' = r.results
           /\ fetchFailed' = (fetchFailed \/ r.err # Nil \/ r.pageErr # Nil)
           /\ IF r.err # Nil
              THEN pc' = "returned" /\ err' = "Failed to security groups"
              ELSE pc' = "open" /\ err' = err
    /\ gi' = 1
    /\ openStart' = Attachments
    /\ UNCHANGED << world, Cfg, Attachments, Projects, allowed_sg, ports, fips,
                    existNoguardSG, existsSGMatchedPolicy, pi,
                    posts, warnings, evals, lastOpen, matchRet, runs, prevOpen >>

\* lines 103-111, one turn of the loop
CheckGroup ==
    /\ pc = "open"
    /\ gi <= Len(securityGroups)
    /\ LET r == isFullOpen(securityGroups[gi], ports, fips, allowed_sg)
       IN  /\ Attachments' = r.Attachments
           /\ lastOpen' = [gi |-> gi, ret |-> r.ret, err |-> r.err,
                           ignorePort |-> r.ignorePort, before |-> Attachments]
           /\ IF r.err # Nil
              THEN /\ pc' = "returned" /\ err' = r.err
                   /\ UNCHANGED << existNoguardSG, gi >>
              ELSE /\ pc' = pc /\ err' = err
                   /\ existNoguardSG' = (existNoguardSG \/ r.ret)
                   /\ gi' = gi + 1
    /\ UNCHANGED << world, Cfg, Projects, allowed_sg, ports, fips, securityGroups,
                    existsSGMatchedPolicy, pi, posts, warnings, evals, fetchFailed,
                    openStart, matchRet, runs, prevOpen >>

\* the dry-run flag is not looked at
MutShouldPost(found) == found

\* lines 113-114 and 163-164: a warning is posted when something was found
\* and the run is no dry run
ShouldPost(found) == found /\ ~Cfg.DryRun

\* lines 113-129, after the loop
OpenWarning ==
    /\ pc = "open"
    /\ gi > Len(securityGroups)
    /\ prevOpen' = [set |-> TRUE, attachments |-> Attachments]
    /\ LET w == postWarning(Attachments, Cfg.PrefixMessage, Cfg.SuffixMessage)
       IN  IF ShouldPost(existNoguardSG)
           THEN /\ posts' = posts \o w.sent
                /\ warnings' = Append(warnings, [category |-> "open", policy |-> 0,
                                                 attachments |-> Attachments])
                /\ IF w.err # Nil
                   THEN /\ pc' = "returned" /\ err' = "Failed to post warning"
                        /\ UNCHANGED << Attachments, pi >>
                   ELSE /\ pc' = "policy" /\ err' = err
                        /\ Attachments' = << >>
                        /\ pi' = 1
           ELSE /\ UNCHANGED << posts, warnings, err >>
                /\ pc' = "policy"
                /\ Attachments' = << >>
                /\ pi' = 1
    /\ UNCHANGED << world, Cfg, Projects, allowed_sg, ports, fips, securityGroups,
                    existNoguardSG, existsSGMatchedPolicy, gi, evals, fetchFailed,
                    lastOpen, openStart, matchRet, runs >>

\* lines 131-148, the head of one turn of the loop over the policies
PreparePolicy ==
    /\ pc = "policy"
    /\ pi <= Len(Cfg.Policies)
    /\ LET q == PrepareForEval(PolicyPaths(Cfg.Policies[pi]))
       IN  IF q.err # Nil
           THEN pc' = "returned" /\ err' = q.err
           ELSE pc' = "eval" /\ err' = err
    /\ existsSGMatchedPolicy' = FALSE
    /\ gi' = 1
    /\ UNCHANGED << world, Cfg, Attachments, Projects, allowed_sg, ports, fips,
                    securityGroups, existNoguardSG, pi, posts, warnings, evals,
                    fetchFailed, lastOpen, openStart, matchRet, runs, prevOpen >>

\* lines 149-161, one turn of the loop over the groups
EvalGroup ==
    /\ pc = "eval"
    /\ gi <= Len(securityGroups)
    /\ LET sg == securityGroups[gi]
           r == matchPolicy(PrepareForEval(PolicyPaths(Cfg.Policies[pi])).query, sg)
       IN  IF contain(allowed_sg, sg.ID)
           THEN /\ gi' = gi + 1
                /\ UNCHANGED << pc, err, Attachments, existsSGMatchedPolicy, evals >>
           ELSE /\ Attachments' = r.Attachments
                /\ evals' = Append(evals, [policy |-> pi, group |-> gi,
                                           err |-> r.err, match |-> r.match])
                /\ IF r.err # Nil
                   THEN /\ pc' = "returned" /\ err' = r.err
                        /\ UNCHANGED << existsSGMatchedPolicy, gi >>
                   ELSE /\ pc' = pc /\ err' = err
                        /\ existsSGMatchedPolicy' = (existsSGMatchedPolicy \/ r.match)
                        /\ gi' = gi + 1
    /\ UNCHANGED << world, Cfg, Projects, allowed_sg, ports, fips, securityGroups,
                    existNoguardSG, pi, posts, warnings, fetchFailed, lastOpen,
                    openStart, matchRet, runs, prevOpen >>

\* lines 163-174, the end of one turn of the loop over the policies
PolicyWarning ==
    /\ pc = "eval"
    /\ gi > Len(securityGroups)
    /\ LET policy == Cfg.Policies[pi]
           w == postWarning(Attachments, policy.PrefixMessage, policy.SuffixMessage)
       IN  IF ShouldPost(existsSGMatchedPolicy)
           THEN /\ posts' = posts \o w.sent
                /\ warnings' = Append(warnings, [category |-> "policy", policy |-> pi,
                                                 attachments |-> Attachments])
                /\ IF w.err # Nil
                   THEN pc' = "returned" /\ err' = "Failed to post warning" /\ pi' = pi
                   ELSE pc' = "policy" /\ err' = err /\ pi' = pi + 1
           ELSE /\ UNCHANGED << posts, warnings, err >>
                /\ pc' = "policy"
                /\ pi' = pi + 1
    /\ UNCHANGED << world, Cfg, Attachments, Projects, allowed_sg, ports, fips,
                    securityGroups, existNoguardSG, existsSGMatchedPolicy, gi, evals,
                    fetchFailed, lastOpen, openStart, matchRet, runs, prevOpen >>

\* line 175
Return ==
    /\ pc = "policy"
    /\ pi > Len(Cfg.Policies)
    /\ pc' = "returned"
    /\ err' = Nil
    /\ UNCHANGED << world, Cfg, Attachments, Projects, allowed_sg, ports, fips,
                    securityGroups, existNoguardSG, existsSGMatchedPolicy, gi, pi,
                    posts, warnings, evals, fetchFailed, lastOpen, openStart,
                    matchRet, runs, prevOpen >>

\* Run is called again on the same checker: the fields stay, the frame is new
Rerun ==
    /\ pc = "returned"
    /\ runs < MaxRuns
    /\ runs' = runs + 1
    /\ pc' = "start"
    /\ allowed_sg' = << >>
    /\ ports' = << >>
    /\ fips' = << >>
    /\ securityGroups' = << >>
    /\ existNoguardSG' = FALSE
    /\ existsSGMatchedPolicy' = FALSE
    /\ gi' = 1
    /\ pi' = 1
    /\ err' = Nil
    /\ posts' = << >>
    /\ warnings' = << >>
    /\ evals' = << >>
    /\ fetchFailed' = FALSE
    /\ lastOpen' = NoOpen
    /\ openStart' = << >>
    /\ UNCHANGED << world, Cfg, Attachments, Projects, matchRet, prevOpen >>

Next ==
    \/ ReadAllowList
    \/ Authenticate
    \/ FetchProjects
    \/ ResolveTenants
    \/ FetchPorts
    \/ FetchFloatingIPs
    \/ FetchSecurityGroups
    \/ CheckGroup
    \/ OpenWarning
    \/ PreparePolicy
    \/ EvalGroup
    \/ PolicyWarning
    \/ Return
    \/ Rerun

Spec == Init /\ [][Next]_vars

----------------------------------------------------------------------------
(* isFullOpen on its own: one security group, the ports, floating IPs,     *)
(* allow list and allow rules drawn from the catalogs                      *)

OpenAllowLists ==
    { << >>,
      << AllowRule("Alpha", "t1", "web", << << "2", "2" >> >>) >>,
      << AllowRule("Beta", "t2", "web", << << "2", "2", "-", "2", "2" >> >>),
         AllowRule("Alpha", "t1", "web",
                   << << "8", "0", "-", "4", "4", "3" >> >>) >> }

InitOpen ==
    /\ securityGroups \in
          { << SecGroup("sg-1", "web", "t1", 1, rs) >> :
              rs \in InjSeqs(RuleCatalog, MaxRules) }
    /\ ports \in InjSeqs(PortCatalog, MaxPorts)
    /\ fips \in InjSeqs(FipCatalog, MaxFips)
    /\ allowed_sg \in { << >>, << "sg-2", "sg-1" >> }
    /\ Cfg \in { Config(rules, FALSE, << >>) : rules \in OpenAllowLists }
    /\ osProjects = << Project1 >>
    /\ osPorts = ports
    /\ osFips = fips
    /\ osGroups = securityGroups
    /\ redisList = allowed_sg
    /\ fault = NoFault
    /\ Attachments = << >>
    /\ Projects = osProjects
    /\ pc = "open"
    /\ existNoguardSG = FALSE
    /\ existsSGMatchedPolicy = FALSE
    /\ gi = 1
    /\ pi = 1
    /\ err = Nil
    /\ posts = << >>
    /\ warnings = << >>
    /\ evals = << >>
    /\ fetchFailed = FALSE
    /\ lastOpen = NoOpen
    /\ openStart = << >>
    /\ matchRet = NoMatch
    /\ runs = 1
    /\ prevOpen = NoPrev

NextOpen == CheckGroup

SpecOpen == InitOpen /\ [][NextOpen]_vars

----------------------------------------------------------------------------
(* matchAllowdRule on its own: the allow rules drawn from the catalog, one *)
(* rule of the group web of tenant t1                                      *)

InitMatch ==
    /\ Cfg \in { Config(rules, FALSE, << >>) :
                   rules \in InjSeqs(AllowRuleCatalog, MaxAllow) }
    /\ securityGroups \in
          { << SecGroup("sg-1", "web", "t1", 1,
                        << SecGroupRule("ingress", "tcp", "0.0.0.0/0",
                                        p[1], p[2]) >>) >> :
              p \in PortPairs }
    /\ osProjects = << Project1 >>
    /\ osPorts = << >>
    /\ osFips = << >>
    /\ osGroups = securityGroups
    /\ redisList = << >>
    /\ fault = NoFault
    /\ Attachments = << >>
    /\ Projects = osProjects
    /\ pc = "match"
    /\ FrameInitRest
    /\ runs = 1
    /\ prevOpen = NoPrev

\* line 423, the call
CallMatchAllowdRule ==
    /\ pc = "match"
    /\ matchRet' = [set |-> TRUE,
                    value |-> matchAllowdRule(Cfg.Rules, securityGroups[1],
                                              securityGroups[1].Rules[1])]
    /\ pc' = "matched"
    /\ UNCHANGED << world, Cfg, Attachments, Projects, allowed_sg, ports, fips,
                    securityGroups, existNoguardSG, existsSGMatchedPolicy, gi, pi,
                    err, posts, warnings, evals, fetchFailed, lastOpen, openStart,
                    runs, prevOpen >>

NextMatch == CallMatchAllowdRule

SpecMatch == InitMatch /\ [][NextMatch]_vars

----------------------------------------------------------------------------
(* What the port entries of an allow rule mean, read as numbers *)

DigitValue(c) == (CHOOSE d \in 1..10 : DigitChars[d] = c) - 1

RECURSIVE Number(_)
Number(s) ==
    IF Len(s) = 0 THEN 0
    ELSE 10 * Number(SubSeq(s, 1, Len(s) - 1)) + DigitValue(s[Len(s)])

IsNumeral(s) == Len(s) > 0 /\ \A i \in 1..Len(s) : IsDigit(s[i])

\* the entry is the literal port n
IsLiteral(entry, n) == IsNumeral(entry) /\ Number(entry) = n

\* the entry is the range expression lo-hi
IsRangeExpr(entry, lo, hi) ==
    \E d \in 1..Len(entry) :
        /\ entry[d] = "-"
        /\ IsLiteral(SubSeq(entry, 1, d - 1), lo)
        /\ IsLiteral(SubSeq(entry, d + 1, Len(entry)), hi)

\* an allow rule of the group's tenant and name covers the rule's port range
Allowed(allowRules, sg, rule) ==
    \E i \in 1..Len(allowRules) :
        /\ allowRules[i].TenantID = sg.TenantID
        /\ allowRules[i].SG = sg.Name
        /\ \/ \E k \in 1..Len(allowRules[i].Port) :
                  IsRangeExpr(allowRules[i].Port[k],
                              rule.PortRangeMin, rule.PortRangeMax)
           \/ /\ \E k \in 1..Len(allowRules[i].Port) :
                     IsLiteral(allowRules[i].Port[k], rule.PortRangeMin)
              /\ \E k \in 1..Len(allowRules[i].Port) :
                     IsLiteral(allowRules[i].Port[k], rule.PortRangeMax)

----------------------------------------------------------------------------
(* C3: matchAllowdRule returns true iff some allow rule of the group's     *)
(* tenant and name holds a range entry whose two ends are the rule's       *)
(* PortRangeMin and PortRangeMax, or holds both of them as literal         *)
(* entries; otherwise it returns false.                                    *)
Claim3_AllowMatcher ==
    matchRet.set =>
        (matchRet.value
            <=> Allowed(Cfg.Rules, securityGroups[1], securityGroups[1].Rules[1]))

\* ports ["80","443"] allow 80-443: the two ends as two literals
Witness3_TwoLiterals ==
    /\ matchRet.set
    /\ matchRet.value
    /\ securityGroups[1].Rules[1].PortRangeMin = 80
    /\ securityGroups[1].Rules[1].PortRangeMax = 443
    /\ Cfg.Rules = << AllowRule("Alpha", "t1", "web",
                                << << "8", "0" >>, << "4", "4", "3" >> >>) >>

----------------------------------------------------------------------------
(* What the findings and the exposure of a group are, stated on the data *)

FieldValue(a, title) == (CHOOSE f \in Range(a.Fields) : f.Title = title).Value

HasField(a, title) == \E f \in Range(a.Fields) : f.Title = title

\* an open-access finding has a PortRange, a policy-match finding has Rules
IsOpenFinding(a) == HasField(a, "PortRange")

IsPolicyFinding(a) == HasField(a, "Rules")

\* the attachments the last call of isFullOpen added
Added == SubSeq(Attachments, Len(lastOpen.before) + 1, Len(Attachments))

\* the exposure check of the last call of isFullOpen said "exposed"
ExposedByCheck == lastOpen.err = Nil /\ ~lastOpen.ignorePort

MustReport(sg, rule) ==
    /\ ExposedByCheck
    /\ rule.RemoteIPPrefix = "0.0.0.0/0"
    /\ rule.Protocol = "tcp"
    /\ rule.Direction = "ingress"
    /\ ~Allowed(Cfg.Rules, sg, rule)
    /\ sg.ID \notin Range(allowed_sg)

ReportedRules(sg) == { i \in 1..Len(sg.Rules) : MustReport(sg, sg.Rules[i]) }

\* the place of rule i among the reported rules
Rank(sg, i) == Cardinality({ j \in ReportedRules(sg) : j <= i })

\* private by the address ranges of the IP classifier
InPrivateRange(ip) ==
    \/ ip[1] = 10
    \/ ip[1] = 172 /\ ip[2] \in 16..31
    \/ ip[1] = 192 /\ ip[2] = 168
    \/ ip[1] = 127
    \/ ip[1] = 169 /\ ip[2] = 254
    \/ ip[1] = 224 /\ ip[2] = 0 /\ ip[3] = 0

Parses(a) == ParseIP(a) # NilIP

ClassifiesPublic(a) == Parses(a) /\ ~InPrivateRange(ParseIP(a))

ClassifiesPrivate(a) == Parses(a) /\ InPrivateRange(ParseIP(a))

Attached(port, sg) == sg.ID \in Range(port.SecurityGroups)

FipBound(port, fs) == \E k \in 1..Len(fs) : fs[k].PortID = port.ID

Exposed(sg, ps, fs) ==
    \E i \in 1..Len(ps) :
        /\ Attached(ps[i], sg)
        /\ \/ FipBound(ps[i], fs)
           \/ \E k \in 1..Len(ps[i].FixedIPs) :
                  ClassifiesPublic(ps[i].FixedIPs[k].IPAddress)

\* the exposure check reaches a fixed IP that does not parse: nothing before
\* it has decided the check
ExaminesUnparsable(sg, ps, fs) ==
    \E i \in 1..Len(ps) :
        /\ Attached(ps[i], sg)
        /\ ~FipBound(ps[i], fs)
        /\ \E k \in 1..Len(ps[i].FixedIPs) :
              /\ ~Parses(ps[i].FixedIPs[k].IPAddress)
              /\ \A m \in 1..(k - 1) :
                    ClassifiesPrivate(ps[i].FixedIPs[m].IPAddress)
        /\ \A j \in 1..(i - 1) :
              Attached(ps[j], sg) =>
                  /\ ~FipBound(ps[j], fs)
                  /\ \A m \in 1..Len(ps[j].FixedIPs) :
                        ClassifiesPrivate(ps[j].FixedIPs[m].IPAddress)

----------------------------------------------------------------------------
Reach1_AllowListed ==
    /\ lastOpen.gi = 1
    /\ ExposedByCheck
    /\ contain(allowed_sg, securityGroups[1].ID)
    /\ \E i \in 1..Len(securityGroups[1].Rules) :
          /\ IsOpenRule(securityGroups[1].Rules[i])
          /\ ~Allowed(Cfg.Rules, securityGroups[1], securityGroups[1].Rules[i])
    /\ Len(Added) = 0

(* C2: the exposure check reports the group exposed iff some port lists    *)
(* the group's id and either a floating IP is bound to that port or one    *)
(* of the port's fixed IPs classifies as public.                           *)
Claim2_ExposedIff ==
    lastOpen.gi = 1 =>
        (ExposedByCheck <=> Exposed(securityGroups[1], ports, fips))

(* C4: if a fixed IP examined by the exposure check does not parse, the    *)
(* check ends in an error that Run returns; the group is reported neither  *)
(* exposed nor not exposed and no finding is produced from it.             *)
Claim4_UnparsableIsError ==
    (lastOpen.gi = 1 /\ ExaminesUnparsable(securityGroups[1], ports, fips)) =>
        /\ lastOpen.err # Nil
        /\ pc = "returned"
        /\ err # Nil
        /\ Len(Added) = 0

----------------------------------------------------------------------------
(* What a run is to find, stated on the inventory the run fetched *)

Exempt(sg) == sg.ID \in Range(allowed_sg)

\* the policy's predicate returns true for the group
Verdict(policy, sg) ==
    LET r == Eval(PolicyPaths(policy), Facts(sg))
    IN  r.err = Nil /\ Len(r.rs) > 0 /\ r.rs[1].x

EvalCount(p, g) ==
    Cardinality({ k \in 1..Len(evals) : evals[k].policy = p /\ evals[k].group = g })

PolicyFindingsOf(sg) ==
    { k \in 1..Len(Attachments) :
        /\ IsPolicyFinding(Attachments[k])
        /\ FieldValue(Attachments[k], "ID") = << sg.ID >> }

\* the group is exposed, as the code classifies the fixed IPs
CodeExposed(sg, ps, fs) ==
    \E i \in 1..Len(ps) :
        /\ Attached(ps[i], sg)
        /\ \/ FipBound(ps[i], fs)
           \/ \E k \in 1..Len(ps[i].FixedIPs) :
                  ~isPrivateIP(ParseIP(ps[i].FixedIPs[k].IPAddress)).isPrivate

ExpectedOpenOf(sg) ==
    IF CodeExposed(sg, ports, fips) /\ ~Exempt(sg)
    THEN LET sel == SelectSeq(sg.Rules,
                              LAMBDA r : IsOpenRule(r) /\ ~Allowed(Cfg.Rules, sg, r))
         IN  [k \in 1..Len(sel) |-> OpenAttachment(sg, sel[k], Projects)]
    ELSE << >>

\* the open-access findings of the first n groups, in group order
RECURSIVE ExpectedOpen(_)
ExpectedOpen(n) ==
    IF n = 0 THEN << >>
    ELSE ExpectedOpen(n - 1) \o ExpectedOpenOf(securityGroups[n])

\* the policy-match findings of policy p on the first n groups
RECURSIVE ExpectedPolicyOf(_, _)
ExpectedPolicyOf(p, n) ==
    IF n = 0 THEN << >>
    ELSE ExpectedPolicyOf(p, n - 1)
         \o (IF ~Exempt(securityGroups[n])
                /\ Verdict(Cfg.Policies[p], securityGroups[n])
             THEN << PolicyAttachment(securityGroups[n], Projects) >>
             ELSE << >>)

\* the policy-match findings of the first p policies, in policy order
RECURSIVE ExpectedPolicies(_)
ExpectedPolicies(p) ==
    IF p = 0 THEN << >>
    ELSE ExpectedPolicies(p - 1) \o ExpectedPolicyOf(p, Len(securityGroups))

Completed == pc = "returned" /\ err = Nil

OpenPassDone == pc = "open" /\ gi > Len(securityGroups)

GroupOfID(id) == CHOOSE g \in GroupCatalog : g.ID = id

\* the tenant label: the project's name, or the tenant id when no project has it
TenantLabel(tenantID) ==
    IF \E p \in Range(Projects) : p.ID = tenantID
    THEN (CHOOSE p \in Range(Projects) : p.ID = tenantID).Name
    ELSE tenantID

----------------------------------------------------------------------------
(* C5: in a run that completes, every policy's predicate is evaluated      *)
(* exactly once for each group that is not on the temporary allow list     *)
(* and never for a group on it; a group on the list yields no policy-match *)
(* finding, any other group one for each policy whose predicate is true.   *)
Claim5_PolicyEvaluations ==
    Completed =>
        \A g \in 1..Len(securityGroups) :
            LET sg == securityGroups[g]
            IN  /\ \A p \in 1..Len(Cfg.Policies) :
                      EvalCount(p, g) = IF Exempt(sg) THEN 0 ELSE 1
                /\ Cardinality(PolicyFindingsOf(sg))
                      = IF Exempt(sg) THEN 0
                        ELSE Cardinality({ p \in 1..Len(Cfg.Policies) :
                                             Verdict(Cfg.Policies[p], sg) })

\* two policies; a group on the allow list that a policy would match, and a
\* group off the list that both policies match
Witness5_ExemptAndTwice ==
    /\ Completed
    /\ Len(Cfg.Policies) = 2
    /\ \E g \in 1..Len(securityGroups) :
          /\ Exempt(securityGroups[g])
          /\ Verdict(Cfg.Policies[1], securityGroups[g])
          /\ PolicyFindingsOf(securityGroups[g]) = { }
    /\ \E g \in 1..Len(securityGroups) :
          /\ ~Exempt(securityGroups[g])
          /\ Cardinality(PolicyFindingsOf(securityGroups[g])) = 2

(* C6: with the dry-run flag set no notifier call is made at any point of  *)
(* a run, for the open-access category and for every policy, and the       *)
(* findings are computed and appended as without the flag: the accumulator *)
(* after the open-access pass and at the end of the run is the same        *)
(* function of the inventory, whatever the flag.                           *)
Claim6_DryRun ==
    /\ Cfg.DryRun => (posts = << >> /\ warnings = << >>)
    /\ OpenPassDone =>
          Attachments = openStart \o ExpectedOpen(Len(securityGroups))
    /\ Completed => Attachments = ExpectedPolicies(Len(Cfg.Policies))

\* a dry run that found open groups and policy matches, and posted nothing
Witness6_DryRunFound ==
    /\ Cfg.DryRun
    /\ Completed
    /\ existNoguardSG
    /\ existsSGMatchedPolicy
    /\ Attachments # << >>
    /\ posts = << >>

(* C7: any failure while fetching the inventory, a failing page of a       *)
(* listing included, aborts the run at that point with an error.           *)
Claim7_FetchFailureAborts ==
    fetchFailed => (pc = "returned" /\ err # Nil)

(* C8: the tenant label of every finding, open-access or policy-match, is  *)
(* the name of the project whose id is the group's tenant id, and the      *)
(* tenant id itself when there is no such project.  Stated for the runs   *)
(* in which no collaborator fails.                                         *)
Claim8_TenantLabel ==
    fault = NoFault =>
        \A k \in 1..Len(Attachments) :
            FieldValue(Attachments[k], "Tenant")
                = << TenantLabel(
                        GroupOfID(FieldValue(Attachments[k], "ID")[1]).TenantID) >>

(* C9: the open-access pass run again on the same checker, over the same   *)
(* inventory, allow rules and allow list, ends with the same sequence of   *)
(* findings as the run before.  Stated for the runs in which no            *)
(* collaborator fails.                                                     *)
Claim9_Idempotent ==
    (fault = NoFault /\ OpenPassDone /\ prevOpen.set) =>
        Attachments = prevOpen.attachments

(* C10: the batch posted for a policy holds exactly the policy-match       *)
(* findings of that policy's own evaluations in the current run.  Stated  *)
(* for the runs in which no collaborator fails.                            *)
Claim10_PolicyBatch ==
    fault = NoFault =>
        \A k \in 1..Len(warnings) :
            warnings[k].category = "policy" =>
                warnings[k].attachments
                    = ExpectedPolicyOf(warnings[k].policy, Len(securityGroups))

============================================================================
